---------------------------- MODULE Spec2Model ----------------------------
(***************************************************************************)
(* A model of two programs of the repository.                              *)
(*                                                                         *)
(*   test.py   the "supervisor": main() starts one daemon thread per       *)
(*             script (safe_run_script), one daemon thread for the         *)
(*             periodic task (repeat_function) and then idles.             *)
(*   main.py   the "orchestrator": one run starts the collector kg.py if   *)
(*             the PID file names no live process, loads thing.txt into    *)
(*             SQLite and truncates it.  Runs may overlap.                 *)
(*                                                                         *)
(* Spec / FairSpec are the supervisor, OrchSpec the orchestrator.          *)
(***************************************************************************)
EXTENDS Integers, Sequences, FiniteSets, TLC

(***************************************************************************)
(* Program constants and bounds                                            *)
(***************************************************************************)

\* test.py:24,27  time.sleep(60) in repeat_function
Interval == 60

\* test.py:39  scripts = ["script1.py", "script2.py"]
scripts == <<"script1.py", "script2.py">>

Workers == 1..Len(scripts)

\* largest runtime of the body of the periodic task, in seconds
MaxActionDur == 2

\* most Popen calls one keep-alive thread may make
MaxLaunches == 2

\* orchestrator processes started in a behaviour
MaxRuns == 2

\* files on the device that thing.py backs up
MaxFiles == 2

\* lines kg.py appends to the local log file in a behaviour
MaxLines == 1

Min(a, b) == IF a < b THEN a ELSE b

\* the lateness of a fire is counted up to here
MaxLate == 2

\* the clock that measures the distance of two fires stops counting here
GapCap == 2 * Interval + MaxActionDur

VARIABLES
    \* ---- test.py ----
    mainPc,      \* where main() is
    spawned,     \* how many keep-alive threads main() has started
    wPc,         \* wPc[w]: where the thread safe_run_script(scripts[w]) is
    outcome,     \* outcome[w]: what the last Popen of w did
    launches,    \* launches[w]: Popen calls made for w
    child,       \* child[w]: the OS process Popen created for w
    exitCode,    \* exitCode[w]: exit status of that process, -1 while none
    sPc,         \* where the thread repeat_function is
    rem,         \* seconds left of the timed step the scheduler is in
    sinceFire,   \* seconds since the last fire began, capped at GapCap
    lastGap,     \* distance of the last two fires, -1 before the second
    fired,       \* whether the task has been invoked at all
    late,        \* how long after firstFire + (k-1)*Interval the last (k-th)
                 \* fire began, capped at MaxLate
    nextFireLate,\* how long after firstFire + k*Interval the sleep after the
                 \* k-th fire ends, capped at MaxLate; -1 before any sleep
    beat,        \* parity of the sleep(1) calls main's idle loop has made
    actionDur,   \* the runtime d of the task body (fixed for a behaviour)
    actionFails, \* whether the last run of the task body raised
    logged,      \* the callers whose log_error call appended a record
    \* ---- main.py, kg.py ----
    oPc,         \* oPc[r]: where orchestrator process r is
    runs,        \* orchestrator processes started so far
    current_pid, \* current_pid[r]: main.py:110, 0 for None
    processPid,  \* processPid[r]: process.pid of main.py:118, 0 while none
    result,      \* result[r]: what process_and_save_local_file_to_db returned
    cleared,     \* cleared[r]: whether r has truncated the local log file
    txn,         \* txn[r]: ids of the rows r inserted and has not committed
    skipped,     \* skipped[r]: ids of the lines r read to the end of the
                 \* file and did not insert, while r may go on to clear it
    exported,    \* exported[r]: whether export_metrics_to_csv returned a path
    emailTried,  \* emailTried[r]: whether send_email_with_attachment ran
    pidFile,     \* PID_FILE: 0 no file, -1 a file without a number, else the pid
    alive,       \* pids of the kg.py processes that are running
    launched,    \* kg.py processes created so far (pids are 1, 2, ..)
    fileExists,  \* whether LOCAL_LOG_FILE (thing.txt) exists
    file,        \* its lines, each [id, kind]
    nextLine,    \* id of the next line kg.py writes
    db,          \* ids of the lines of which system_metrics holds a committed row
    \* ---- the log files thing.txt and console.log ----
    writing,     \* writing[t]: the file writer t is appending to, or "none"
    log_write_lock, \* clip.py:68 the thread that holds it, or "none"
    \* ---- sc.py ----
    hPc,         \* where the HTTP server thread is in do_GET
    requests,    \* GET requests received so far
    capPc,       \* where the thread capture_loop is
    mPc,         \* where the thread monitor_client_activity_loop is
    mRem,        \* half-seconds left of the monitor's sleep
    age,         \* time.time() - last_client_request_time in half-seconds,
                 \* capped just above the timeout
    capture_active, \* sc.py:31 _capture_active_event is set
    LATEST_IMAGE_DATA, \* sc.py:24 0 for None, else the number of the image
    CURRENT_SCREENSHOT_FILE_ON_DISK, \* sc.py:26 0 for None, else its number
    \* thing.py
    tPc,         \* where main of thing.py is
    upload_session_active, \* thing.py:165
    is_connected, \* thing.py:169 the last result of check_for_iphone
    device,      \* the iPhone is plugged in
    mounted,     \* the device is mounted at MOUNT_POINT
    unmountDue,  \* a mount succeeded and unmount_iphone has not been
                 \* called since
    attempts,    \* mount attempts since the last observed disconnect
    idx,         \* thing.py:123 the file upload_files_to_r2 is at
    head,        \* thing.py:127-131 the answer of the last head_object
    uploaded_count, \* thing.py:120
    skipped_count,  \* thing.py:121
    bucket,      \* the keys in the R2 bucket
    lastFull     \* the last call of upload_files_to_r2 uploaded or skipped
                 \* every file

supVars == <<mainPc, spawned, wPc, outcome, launches, child, exitCode,
             sPc, rem, sinceFire, lastGap, fired, late, nextFireLate, beat,
             actionDur, actionFails, logged>>

orchVars == <<oPc, runs, current_pid, processPid, result, cleared,
              txn, skipped, exported, emailTried, pidFile, alive, launched, fileExists,
              file, nextLine, db>>

logVars == <<writing, log_write_lock>>

scVars == <<hPc, requests, capPc, mPc, mRem, age, capture_active,
            LATEST_IMAGE_DATA, CURRENT_SCREENSHOT_FILE_ON_DISK>>

\* the locals of upload_files_to_r2 and the bucket
uploadVars == <<idx, head, uploaded_count, skipped_count, bucket, lastFull>>

thingVars == <<tPc, upload_session_active, is_connected, device, mounted,
               unmountDue, attempts, uploadVars>>

vars == <<supVars, orchVars, logVars, scVars, thingVars>>

\* what the steps of test.py, of main.py and kg.py, of the log writers and
\* of sc.py leave alone
notSupVars == <<orchVars, logVars, scVars, thingVars>>
notOrchVars == <<supVars, logVars, scVars, thingVars>>
notLogVars == <<supVars, orchVars, scVars, thingVars>>
notScVars == <<supVars, orchVars, logVars, thingVars>>
notThingVars == <<supVars, orchVars, logVars, scVars>>

(***************************************************************************)
(* test.py                                                                 *)
(***************************************************************************)

\* test.py:9-11 log_error: open(LOG_FILE, "a") and write.  The caller "who"
\* has a record in console.log afterwards.  open/write may raise OSError
\* (read-only directory, full disk): the callers below choose between the
\* two outcomes.
log_error(who) == logged' = logged \cup {who}

\* Threads are daemon threads (test.py:42,45): they run only while the
\* main thread has not ended.
ProcessAlive == mainPc # "terminated"

SupInit ==
    /\ mainPc = "install"
    /\ spawned = 0
    /\ wPc = [w \in Workers |-> "unstarted"]
    /\ outcome = [w \in Workers |-> "none"]
    /\ launches = [w \in Workers |-> 0]
    /\ child = [w \in Workers |-> "none"]
    /\ exitCode = [w \in Workers |-> -1]
    /\ sPc = "unstarted"
    /\ rem = 0
    /\ sinceFire = 0
    /\ lastGap = -1
    /\ fired = FALSE
    /\ late = 0
    /\ nextFireLate = -1
    /\ beat = 0
    /\ actionDur = 0
    /\ actionFails = FALSE
    /\ logged = {}

workerVars == <<wPc, outcome, launches, child, exitCode>>
schedVars == <<sPc, rem, sinceFire, lastGap, fired, late, nextFireLate,
               actionDur, actionFails>>

\* test.py:29-33 install_requirements, called at test.py:37.  pip succeeds,
\* or subprocess.run(check=True) raises and the except clause logs it.
install_requirements ==
    /\ mainPc = "install"
    /\ \/ mainPc' = "spawn" /\ UNCHANGED logged
       \/ mainPc' = "install_log" /\ UNCHANGED logged
    /\ UNCHANGED <<spawned, workerVars, schedVars, beat>>
    /\ UNCHANGED notSupVars

\* test.py:32-33 the except clause of install_requirements: log_error
\* returns, or raises out of install_requirements into main's try block.
install_requirements_except ==
    /\ mainPc = "install_log"
    /\ \/ log_error("install") /\ mainPc' = "spawn"
       \/ mainPc' = "main_except" /\ UNCHANGED logged
    /\ UNCHANGED <<spawned, workerVars, schedVars, beat>>
    /\ UNCHANGED notSupVars

\* test.py:41-43 one iteration of "for s in scripts": Thread(...).start()
\* starts the thread, or raises RuntimeError (can't start new thread).
main_start_worker ==
    /\ mainPc = "spawn"
    /\ spawned < Len(scripts)
    /\ \/ /\ spawned' = spawned + 1
          /\ wPc' = [wPc EXCEPT ![spawned + 1] = "popen"]
          /\ UNCHANGED mainPc
       \/ /\ mainPc' = "main_except"
          /\ UNCHANGED <<spawned, wPc>>
    /\ UNCHANGED <<outcome, launches, child, exitCode, schedVars, beat, logged>>
    /\ UNCHANGED notSupVars

\* a variant of the start of the scheduler that does not come after the loop
\* over the scripts
main_start_repeat_early ==
    /\ mainPc = "spawn"
    /\ \/ /\ sPc' = "fire"
          /\ mainPc' = "idle"
          /\ actionDur' \in 0..MaxActionDur
       \/ /\ mainPc' = "main_except"
          /\ UNCHANGED <<sPc, actionDur>>
    /\ UNCHANGED <<spawned, workerVars, rem, sinceFire, lastGap, fired, late,
                   nextFireLate, beat, actionFails, logged>>
    /\ UNCHANGED notSupVars

\* test.py:45-46 t_repeat.start(), then main enters "while True: sleep(1)".
\* The runtime d of the task body is an input, fixed from here on.
main_start_repeat ==
    /\ mainPc = "spawn"
    /\ spawned = Len(scripts)
    /\ \/ /\ sPc' = "fire"
          /\ mainPc' = "idle"
          /\ actionDur' \in 0..MaxActionDur
       \/ /\ mainPc' = "main_except"
          /\ UNCHANGED <<sPc, actionDur>>
    /\ UNCHANGED <<spawned, workerVars, rem, sinceFire, lastGap, fired, late,
                   nextFireLate, beat, actionFails, logged>>
    /\ UNCHANGED notSupVars

\* test.py:51-55 main's except clause: log_error(e), then the permanent
\* "while True: time.sleep(60)".  When log_error raises, the exception
\* leaves main() and the interpreter ends with its daemon threads.
main_except ==
    /\ mainPc = "main_except"
    /\ \/ log_error("main") /\ mainPc' = "idle_fault"
       \/ mainPc' = "terminated" /\ UNCHANGED logged
    /\ UNCHANGED <<spawned, workerVars, schedVars, beat>>
    /\ UNCHANGED notSupVars

\* test.py:13-15 safe_run_script: subprocess.Popen([sys.executable, script]).
\* Popen returns (a child process runs) and the function returns, or Popen
\* raises FileNotFoundError (the executable does not resolve) or another
\* OSError; both are caught by "except Exception".
safe_run_script_Popen(w) ==
    /\ ProcessAlive
    /\ wPc[w] = "popen"
    /\ launches[w] < MaxLaunches
    /\ launches' = [launches EXCEPT ![w] = @ + 1]
    /\ \/ /\ outcome' = [outcome EXCEPT ![w] = "launched"]
          /\ child' = [child EXCEPT ![w] = "running"]
          /\ wPc' = [wPc EXCEPT ![w] = "returned"]
       \/ /\ \E err \in {"not_found", "os_error"} :
                outcome' = [outcome EXCEPT ![w] = err]
          /\ wPc' = [wPc EXCEPT ![w] = "except"]
          /\ UNCHANGED child
    /\ UNCHANGED <<mainPc, spawned, exitCode, schedVars, beat, logged>>
    /\ UNCHANGED notSupVars

\* a variant of the except clause that tries the launch again
safe_run_script_except_retry(w) ==
    /\ ProcessAlive
    /\ wPc[w] = "except"
    /\ \/ log_error(scripts[w]) /\ wPc' = [wPc EXCEPT ![w] = "popen"]
       \/ wPc' = [wPc EXCEPT ![w] = "died"] /\ UNCHANGED logged
    /\ UNCHANGED <<mainPc, spawned, outcome, launches, child, exitCode,
                   schedVars, beat>>
    /\ UNCHANGED notSupVars

\* test.py:16-17 the except clause of safe_run_script: log_error(e) and the
\* function returns; when log_error raises, the thread dies of it.
safe_run_script_except(w) ==
    /\ ProcessAlive
    /\ wPc[w] = "except"
    /\ \/ log_error(scripts[w]) /\ wPc' = [wPc EXCEPT ![w] = "returned"]
       \/ wPc' = [wPc EXCEPT ![w] = "died"] /\ UNCHANGED logged
    /\ UNCHANGED <<mainPc, spawned, outcome, launches, child, exitCode,
                   schedVars, beat>>
    /\ UNCHANGED notSupVars

\* The child process of test.py:15 ends, with exit status 0 or not.  It is
\* an OS process of its own: it ends whether or not the supervisor lives.
child_exit(w) ==
    /\ child[w] = "running"
    /\ child' = [child EXCEPT ![w] = "exited"]
    /\ \E code \in {0, 1} : exitCode' = [exitCode EXCEPT ![w] = code]
    /\ UNCHANGED <<mainPc, spawned, wPc, outcome, launches, schedVars,
                   beat, logged>>
    /\ UNCHANGED notSupVars

\* test.py:20-23 repeat_function: the top of "while True", the task body
\* ("Your repeating code here", print) begins: a fire.
repeat_function_fire ==
    /\ ProcessAlive
    /\ sPc = "fire"
    /\ sPc' = "action"
    /\ rem' = actionDur
    /\ fired' = TRUE
    /\ lastGap' = IF fired THEN sinceFire ELSE -1
    /\ late' = IF fired THEN Min(late + (sinceFire - Interval), MaxLate) ELSE 0
    /\ sinceFire' = 0
    /\ UNCHANGED <<mainPc, spawned, workerVars, nextFireLate, beat, actionDur,
                   actionFails, logged>>
    /\ UNCHANGED notSupVars

\* time.sleep(60) of test.py:24 and test.py:27: the thread sleeps Interval
\* seconds from now, whatever the time the task took.
sleep_60 ==
    /\ sPc' = "sleep"
    /\ rem' = Interval
    /\ nextFireLate' = Min(late + sinceFire, MaxLate)

\* test.py:22-24 the task body ends after its runtime: normally, and
\* time.sleep(60) begins, or by raising into the except clause.
repeat_function_action_end ==
    /\ ProcessAlive
    /\ sPc = "action"
    /\ rem = 0
    /\ \/ /\ sleep_60
          /\ actionFails' = FALSE
       \/ /\ sPc' = "except"
          /\ actionFails' = TRUE
          /\ UNCHANGED <<rem, nextFireLate>>
    /\ UNCHANGED <<mainPc, spawned, workerVars, sinceFire, lastGap, fired, late,
                   beat, actionDur, logged>>
    /\ UNCHANGED notSupVars

\* test.py:25-27 the except clause of repeat_function: log_error(e), then
\* time.sleep(60); when log_error raises, the thread dies of it.
repeat_function_except ==
    /\ ProcessAlive
    /\ sPc = "except"
    /\ \/ /\ log_error("repeat")
          /\ sleep_60
       \/ /\ sPc' = "died"
          /\ UNCHANGED <<rem, nextFireLate, logged>>
    /\ UNCHANGED <<mainPc, spawned, workerVars, sinceFire, lastGap, fired, late,
                   beat, actionDur, actionFails>>
    /\ UNCHANGED notSupVars

\* test.py:24,27 time.sleep(60) returns and the loop starts over.
repeat_function_wake ==
    /\ ProcessAlive
    /\ sPc = "sleep"
    /\ rem = 0
    /\ sPc' = "fire"
    /\ UNCHANGED <<mainPc, spawned, workerVars, rem, sinceFire, lastGap, fired,
                   late, nextFireLate, beat, actionDur, actionFails, logged>>
    /\ UNCHANGED notSupVars

\* Time passes until the timed step the scheduler thread is in (the task
\* body, a sleep) is over.  No other thread reads the clock.
Tick ==
    /\ ProcessAlive
    /\ sPc \in {"action", "sleep"}
    /\ rem > 0
    /\ sinceFire' = Min(sinceFire + rem, GapCap)
    /\ rem' = 0
    /\ UNCHANGED <<mainPc, spawned, workerVars, sPc, lastGap, fired, late,
                   nextFireLate, beat, actionDur, actionFails, logged>>
    /\ UNCHANGED notSupVars

\* test.py:48-49 and 54-55: one turn of "while True: time.sleep(..)".
main_idle ==
    /\ mainPc \in {"idle", "idle_fault"}
    /\ beat' = 1 - beat
    /\ UNCHANGED <<mainPc, spawned, workerVars, schedVars, logged>>
    /\ UNCHANGED notSupVars

(***************************************************************************)
(* main.py (the orchestrator) and kg.py (the collector it starts)          *)
(***************************************************************************)

\* Two orchestrator processes may run at the same time (one started while
\* the one before it has not ended); MaxRuns are started in all.
Runs == {1, 2}

\* A line of thing.txt as main.py:150-178 sees it: "metrics" has 7 fields
\* that parse; "other" has another number of fields (every line kg.py:25
\* writes is one) or a field that does not parse, and is skipped.
LineKinds == {"metrics", "other"}

LineIds == 1..MaxLines

Ids(f) == {f[i].id : i \in 1..Len(f)}

\* main.py:154-176 the ids of the lines of f that reach cursor.execute
Insertable(f) == {f[i].id : i \in {j \in 1..Len(f) : f[j].kind = "metrics"}}

OrchInit ==
    /\ oPc = [r \in Runs |-> "exited"]
    /\ runs = 0
    /\ current_pid = [r \in Runs |-> 0]
    /\ processPid = [r \in Runs |-> 0]
    /\ result = [r \in Runs |-> "none"]
    /\ cleared = [r \in Runs |-> FALSE]
    /\ txn = [r \in Runs |-> {}]
    /\ skipped = [r \in Runs |-> {}]
    /\ exported = [r \in Runs |-> FALSE]
    /\ emailTried = [r \in Runs |-> FALSE]
    /\ pidFile = 0
    /\ alive = {}
    /\ launched = 0
    /\ fileExists = FALSE
    /\ file = <<>>
    /\ nextLine = 1
    /\ db = {}

procVars == <<pidFile, alive, launched>>
fileVars == <<fileExists, file, nextLine>>
localVars == <<current_pid, processPid, result, cleared, txn, skipped,
               exported, emailTried>>

\* The memory of an orchestrator process that is not running.
NoLocals(r) ==
    /\ current_pid' = [current_pid EXCEPT ![r] = 0]
    /\ processPid' = [processPid EXCEPT ![r] = 0]
    /\ result' = [result EXCEPT ![r] = "none"]
    /\ cleared' = [cleared EXCEPT ![r] = FALSE]
    /\ txn' = [txn EXCEPT ![r] = {}]
    /\ skipped' = [skipped EXCEPT ![r] = {}]
    /\ exported' = [exported EXCEPT ![r] = FALSE]
    /\ emailTried' = [emailTried EXCEPT ![r] = FALSE]

\* main.py:314-318 an orchestrator process starts (initialize_db).  The
\* processes are alike: a process takes the first free place in Runs.
orchestrator_start(r) ==
    /\ oPc[r] = "exited"
    /\ \A q \in Runs : q < r => oPc[q] # "exited"
    /\ runs < MaxRuns
    /\ runs' = runs + 1
    /\ oPc' = [oPc EXCEPT ![r] = "get_pid"]
    /\ UNCHANGED <<localVars, procVars, fileVars, db>>
    /\ UNCHANGED notOrchVars

\* main.py:68-76 get_secondary_script_pid, called at main.py:110: the
\* number in the PID file; None when there is no file, when its content is
\* no number (ValueError) or when reading fails (IOError).
get_secondary_script_pid(r) ==
    /\ oPc[r] = "get_pid"
    /\ \/ current_pid' = [current_pid EXCEPT ![r] = IF pidFile > 0 THEN pidFile ELSE 0]
       \/ pidFile # 0 /\ current_pid' = [current_pid EXCEPT ![r] = 0]
    /\ oPc' = [oPc EXCEPT ![r] = "check"]
    /\ UNCHANGED <<runs, processPid, result, cleared, txn, exported,
                   emailTried, procVars, fileVars, db,
                   skipped>>
    /\ UNCHANGED notOrchVars

\* main.py:94-104 is_process_running: os.kill(pid, 0) succeeds
is_process_running(pid) == pid # 0 /\ pid \in alive

\* main.py:321-324,344 start_secondary_script_if_needed returns (its
\* locals are gone) and sys.argv[1] decides: export mode, or the collection
\* of the local log file.
main_mode(r) ==
    /\ current_pid' = [current_pid EXCEPT ![r] = 0]
    /\ processPid' = [processPid EXCEPT ![r] = 0]
    /\ \E next \in {"process", "export"} : oPc' = [oPc EXCEPT ![r] = next]

\* main.py:112-116 the test of start_secondary_script_if_needed; current_pid
\* is not read after it.
start_secondary_script_check(r) ==
    /\ oPc[r] = "check"
    /\ IF current_pid[r] # 0 /\ is_process_running(current_pid[r])
       THEN main_mode(r)
       ELSE /\ oPc' = [oPc EXCEPT ![r] = "popen"]
            /\ current_pid' = [current_pid EXCEPT ![r] = 0]
            /\ UNCHANGED processPid
    /\ UNCHANGED <<runs, result, cleared, txn, exported, emailTried, procVars,
                   fileVars, db,
                   skipped>>
    /\ UNCHANGED notOrchVars

\* main.py:117-123,128-133 subprocess.Popen: a new kg.py process runs, or
\* Popen raises (FileNotFoundError, another exception) and the except
\* clause goes on to clear the PID file.
start_secondary_script_Popen(r) ==
    /\ oPc[r] = "popen"
    /\ \/ /\ launched' = launched + 1
          /\ alive' = alive \cup {launched + 1}
          /\ processPid' = [processPid EXCEPT ![r] = launched + 1]
          /\ oPc' = [oPc EXCEPT ![r] = "set_pid"]
       \/ /\ oPc' = [oPc EXCEPT ![r] = "clear_pid"]
          /\ UNCHANGED <<launched, alive, processPid>>
    /\ UNCHANGED <<runs, current_pid, result, cleared, txn,
                   exported, emailTried, pidFile, fileVars, db,
                   skipped>>
    /\ UNCHANGED notOrchVars

\* main.py:78-84 set_secondary_script_pid, first half: open(PID_FILE, 'w')
\* empties the file; an IOError is printed and the run goes on.
set_secondary_script_pid_open(r) ==
    /\ oPc[r] = "set_pid"
    /\ \/ /\ pidFile' = -1
          /\ oPc' = [oPc EXCEPT ![r] = "write_pid"]
          /\ UNCHANGED <<current_pid, processPid>>
       \/ /\ main_mode(r)
          /\ UNCHANGED pidFile
    /\ UNCHANGED <<runs, result, cleared, txn, exported, emailTried, alive,
                   launched, fileVars, db,
                   skipped>>
    /\ UNCHANGED notOrchVars

\* main.py:82 f.write(str(pid)) and the close of the file.
set_secondary_script_pid_write(r) ==
    /\ oPc[r] = "write_pid"
    /\ pidFile' = processPid[r]
    /\ main_mode(r)
    /\ UNCHANGED <<runs, result, cleared, txn, exported, emailTried, alive,
                   launched, fileVars, db,
                   skipped>>
    /\ UNCHANGED notOrchVars

\* main.py:86-92 clear_secondary_script_pid: os.remove if the file exists;
\* an OSError is printed.
clear_secondary_script_pid(r) ==
    /\ oPc[r] = "clear_pid"
    /\ \/ pidFile' = 0
       \/ pidFile # 0 /\ UNCHANGED pidFile
    /\ main_mode(r)
    /\ UNCHANGED <<runs, result, cleared, txn, exported, emailTried, alive,
                   launched, fileVars, db,
                   skipped>>
    /\ UNCHANGED notOrchVars

\* main.py:205-253,327 export_metrics_to_csv returns the path or None
export_metrics_to_csv(r) ==
    /\ oPc[r] = "export"
    /\ \E ok \in BOOLEAN : exported' = [exported EXCEPT ![r] = ok]
    /\ oPc' = [oPc EXCEPT ![r] = "email"]
    /\ UNCHANGED <<runs, current_pid, processPid, result, cleared,
                   txn, emailTried, procVars, fileVars, db,
                   skipped>>
    /\ UNCHANGED notOrchVars

\* a variant of the email branch that does not look at what the export
\* returned
main_export_email_always(r) ==
    /\ oPc[r] = "email"
    /\ \E email \in BOOLEAN :
          emailTried' = [emailTried EXCEPT ![r] = email]
    /\ oPc' = [oPc EXCEPT ![r] = "end"]
    /\ UNCHANGED <<runs, current_pid, processPid, result, cleared, txn,
                   exported, procVars, fileVars, db,
                   skipped>>
    /\ UNCHANGED notOrchVars

\* main.py:329-342 send_email_with_attachment is called if sys.argv[2] is
\* "email" and the export returned a path; then sys.exit(0).
main_export_email(r) ==
    /\ oPc[r] = "email"
    /\ \E email \in BOOLEAN :
          emailTried' = [emailTried EXCEPT ![r] = email /\ exported[r]]
    /\ oPc' = [oPc EXCEPT ![r] = "end"]
    /\ UNCHANGED <<runs, current_pid, processPid, result, cleared, txn,
                   exported, procVars, fileVars, db,
                   skipped>>
    /\ UNCHANGED notOrchVars

\* a variant of the branch that clears the file whatever was returned
main_branch_always_clear(r, returned) ==
    /\ result' = [result EXCEPT ![r] = returned]
    /\ oPc' = [oPc EXCEPT ![r] = "clear"]

\* main.py:345-349 process_and_save_local_file_to_db returns and the file
\* is cleared if it returned True.
main_branch(r, returned) ==
    /\ result' = [result EXCEPT ![r] = returned]
    /\ oPc' = [oPc EXCEPT ![r] = IF returned = "true" THEN "clear" ELSE "end"]

\* main.py:139-141 process_and_save_local_file_to_db: a missing or empty
\* file is "nothing to process" and the function returns True.
process_check(r) ==
    /\ oPc[r] = "process"
    /\ IF ~fileExists \/ Len(file) = 0
       THEN main_branch(r, "true")
       ELSE /\ oPc' = [oPc EXCEPT ![r] = "read"]
            /\ UNCHANGED result
    /\ UNCHANGED <<runs, current_pid, processPid, cleared, txn,
                   exported, emailTried, procVars, fileVars, db,
                   skipped>>
    /\ UNCHANGED notOrchVars

\* main.py:143-181,186-191 connect, then the loop over the lines: a line
\* that is blank, has not 7 fields or does not parse is skipped, and so is a
\* line whose INSERT raises.  sqlite3.connect raising ends the process;
\* an exception of the read itself, after some of the rows were inserted,
\* goes to the except clause of main.py:186.
process_read(r) ==
    /\ oPc[r] = "read"
    /\ \/ /\ \E ins \in SUBSET Insertable(file) :
                /\ txn' = [txn EXCEPT ![r] = ins]
                /\ \/ /\ oPc' = [oPc EXCEPT ![r] = "commit"]
                      /\ skipped' = [skipped EXCEPT ![r] = Ids(file) \ ins]
                   \/ /\ oPc' = [oPc EXCEPT ![r] = "rollback"]
                      /\ UNCHANGED skipped
          /\ UNCHANGED result
       \/ /\ oPc' = [oPc EXCEPT ![r] = "end"]
          /\ UNCHANGED <<txn, skipped, result>>
    /\ UNCHANGED <<runs, current_pid, processPid, cleared, exported,
                   emailTried, procVars, fileVars, db>>
    /\ UNCHANGED notOrchVars

\* main.py:182-186 conn.commit() and return True; or commit raises and the
\* except clause of main.py:186 is entered with the rows still pending.
process_commit(r) ==
    /\ oPc[r] = "commit"
    /\ \/ /\ db' = db \cup txn[r]
          /\ txn' = [txn EXCEPT ![r] = {}]
          /\ main_branch(r, "true")
          /\ UNCHANGED skipped
       \/ /\ oPc' = [oPc EXCEPT ![r] = "rollback"]
          /\ skipped' = [skipped EXCEPT ![r] = {}]
          /\ UNCHANGED <<db, txn, result>>
    /\ UNCHANGED <<runs, current_pid, processPid, cleared, exported,
                   emailTried, procVars, fileVars>>
    /\ UNCHANGED notOrchVars

\* a variant of the except clause that commits what was inserted
process_rollback_commits(r) ==
    /\ oPc[r] = "rollback"
    /\ db' = db \cup txn[r]
    /\ txn' = [txn EXCEPT ![r] = {}]
    /\ main_branch(r, "false")
    /\ UNCHANGED <<runs, current_pid, processPid, cleared, exported,
                   emailTried, procVars, fileVars,
                   skipped>>
    /\ UNCHANGED notOrchVars

\* main.py:186-191 the except clause: conn.rollback() drops the pending
\* rows, the function returns False and the finally clause closes the
\* connection; or rollback raises, the connection is closed with the
\* rows pending, which drops them, and the exception ends the process.
process_rollback(r) ==
    /\ oPc[r] = "rollback"
    /\ txn' = [txn EXCEPT ![r] = {}]
    /\ \/ main_branch(r, "false")
       \/ /\ oPc' = [oPc EXCEPT ![r] = "end"]
          /\ UNCHANGED result
    /\ UNCHANGED <<runs, current_pid, processPid, cleared, exported,
                   emailTried, procVars, fileVars, db,
                   skipped>>
    /\ UNCHANGED notOrchVars

\* main.py:193-203 clear_local_log_file: open(file_path, 'w') truncates an
\* existing file; an exception is printed and the file stays as it is.
clear_local_log_file(r) ==
    /\ oPc[r] = "clear"
    /\ \/ /\ fileExists
          /\ file' = <<>>
          /\ cleared' = [cleared EXCEPT ![r] = TRUE]
       \/ UNCHANGED <<file, cleared>>
    /\ skipped' = [skipped EXCEPT ![r] = {}]
    /\ oPc' = [oPc EXCEPT ![r] = "end"]
    /\ UNCHANGED <<runs, current_pid, processPid, result, txn,
                   exported, emailTried, procVars, fileExists, nextLine, db>>
    /\ UNCHANGED notOrchVars

\* main.py:342,351-352 the process ends (sys.exit, the end of the script,
\* an uncaught exception) and its memory is gone.
main_end(r) ==
    /\ oPc[r] = "end"
    /\ oPc' = [oPc EXCEPT ![r] = "exited"]
    /\ NoLocals(r)
    /\ UNCHANGED <<runs, procVars, fileVars, db>>
    /\ UNCHANGED notOrchVars

\* kg.py:19-27 log_to_file in a running collector: the file is created if
\* missing and a line is appended.
log_to_file(p) ==
    /\ p \in alive
    /\ nextLine <= MaxLines
    /\ fileExists' = TRUE
    /\ \E k \in LineKinds : file' = Append(file, [id |-> nextLine, kind |-> k])
    /\ nextLine' = nextLine + 1
    /\ UNCHANGED <<oPc, runs, localVars, procVars, db>>
    /\ UNCHANGED notOrchVars

\* kg.py:56-66 a collector process ends (listener stopped, an exception).
collector_exit(p) ==
    /\ p \in alive
    /\ alive' = alive \ {p}
    /\ UNCHANGED <<oPc, runs, localVars, pidFile, launched, fileVars, db>>
    /\ UNCHANGED notOrchVars

OrchNext ==
    \/ \E r \in Runs : orchestrator_start(r)
    \/ \E r \in Runs : get_secondary_script_pid(r)
    \/ \E r \in Runs : start_secondary_script_check(r)
    \/ \E r \in Runs : start_secondary_script_Popen(r)
    \/ \E r \in Runs : set_secondary_script_pid_open(r)
    \/ \E r \in Runs : set_secondary_script_pid_write(r)
    \/ \E r \in Runs : clear_secondary_script_pid(r)
    \/ \E r \in Runs : export_metrics_to_csv(r)
    \/ \E r \in Runs : main_export_email(r)
    \/ \E r \in Runs : process_check(r)
    \/ \E r \in Runs : process_read(r)
    \/ \E r \in Runs : process_commit(r)
    \/ \E r \in Runs : process_rollback(r)
    \/ \E r \in Runs : clear_local_log_file(r)
    \/ \E r \in Runs : main_end(r)
    \/ \E p \in 1..MaxRuns : log_to_file(p)
    \/ \E p \in 1..MaxRuns : collector_exit(p)

(***************************************************************************)
(* The writers of the two log files.  test.py, kg.py and clip.py are        *)
(* separate processes that append to console.log; kg.py and clip.py also    *)
(* append to thing.txt.                                                     *)
(***************************************************************************)

LogFiles == {"thing.txt", "console.log"}

\* test.py:42,45 the threads of test.py that call log_error
TestThreads == {scripts[w] : w \in Workers} \cup {"repeat_function"}

\* kg.py: the listener thread, in which on_press and on_release run
KgThreads == {"kg.py"}

\* clip.py: the main thread, and the thread in which the clipboard_monitor
\* library runs the callbacks registered at clip.py:437-439
ClipThreads == {"clip_main", "clip_callback"}

LogWriters == TestThreads \cup KgThreads \cup ClipThreads

LogInit ==
    /\ writing = [t \in LogWriters |-> "none"]
    /\ log_write_lock = "none"

\* test.py:10 log_error: open(LOG_FILE, "a"); the caller is inside the
\* append from here on.  Nothing is acquired before it.
log_error_open(t) ==
    /\ t \in TestThreads
    /\ writing[t] = "none"
    /\ writing' = [writing EXCEPT ![t] = "console.log"]
    /\ UNCHANGED <<log_write_lock, notLogVars>>

\* test.py:11 f.write(...) and the end of the with block closes the file.
log_error_close(t) ==
    /\ t \in TestThreads
    /\ writing[t] = "console.log"
    /\ writing' = [writing EXCEPT ![t] = "none"]
    /\ UNCHANGED <<log_write_lock, notLogVars>>

\* kg.py:23 log_to_file opens thing.txt for append, kg.py:33 log_to_console
\* opens console.log for append.  Nothing is acquired before either.
kg_open(t) ==
    /\ t \in KgThreads
    /\ writing[t] = "none"
    /\ \E f \in LogFiles : writing' = [writing EXCEPT ![t] = f]
    /\ UNCHANGED <<log_write_lock, notLogVars>>

\* kg.py:24-25, 34-35 the write, and the with block closes the file.
kg_close(t) ==
    /\ t \in KgThreads
    /\ writing[t] # "none"
    /\ writing' = [writing EXCEPT ![t] = "none"]
    /\ UNCHANGED <<log_write_lock, notLogVars>>

\* clip.py:80-81 handle_error: "with log_write_lock" is entered and
\* logging.log hands the record to the handler of thing.txt (clip.py:35).
handle_error_acquire(t) ==
    /\ t \in ClipThreads
    /\ log_write_lock = "none"
    /\ log_write_lock' = t
    /\ writing' = [writing EXCEPT ![t] = "thing.txt"]
    /\ UNCHANGED notLogVars

\* clip.py:81 logging.log goes on to the handler of console.log (clip.py:43).
handle_error_console(t) ==
    /\ t \in ClipThreads
    /\ log_write_lock = t
    /\ writing[t] = "thing.txt"
    /\ writing' = [writing EXCEPT ![t] = "console.log"]
    /\ UNCHANGED <<log_write_lock, notLogVars>>

\* clip.py:80-81 logging.log returns and the with block releases the lock.
handle_error_release(t) ==
    /\ t \in ClipThreads
    /\ log_write_lock = t
    /\ writing[t] = "console.log"
    /\ writing' = [writing EXCEPT ![t] = "none"]
    /\ log_write_lock' = "none"
    /\ UNCHANGED notLogVars

LogNext ==
    \/ \E t \in TestThreads : log_error_open(t)
    \/ \E t \in TestThreads : log_error_close(t)
    \/ \E t \in KgThreads : kg_open(t)
    \/ \E t \in KgThreads : kg_close(t)
    \/ \E t \in ClipThreads : handle_error_acquire(t)
    \/ \E t \in ClipThreads : handle_error_console(t)
    \/ \E t \in ClipThreads : handle_error_release(t)

(***************************************************************************)
(* sc.py: the HTTP server (one request at a time, sc.py:301), the capture   *)
(* thread and the client activity monitor thread.  Time is counted in      *)
(* half-seconds, so that the monitor's sleep of TIMEOUT / 2 is whole.      *)
(***************************************************************************)

\* sc.py:34
CLIENT_INACTIVITY_TIMEOUT_SECONDS == 15

\* GET requests a behaviour holds
MaxRequests == 2

\* sc.py:213 the timeout, and sc.py:219 the monitor's sleep, in half-seconds
Timeout == 2 * CLIENT_INACTIVITY_TIMEOUT_SECONDS
MonitorSleep == CLIENT_INACTIVITY_TIMEOUT_SECONDS

\* the grain in which time passes, in half-seconds
TickStep == CLIENT_INACTIVITY_TIMEOUT_SECONDS \div 3

AgeCap == Timeout + 1

ScInit ==
    /\ hPc = "idle"
    /\ requests = 0
    /\ capPc = "wait"
    /\ mPc = "check"
    /\ mRem = 0
    /\ age = AgeCap
    /\ capture_active = FALSE
    /\ LATEST_IMAGE_DATA = 0
    /\ CURRENT_SCREENSHOT_FILE_ON_DISK = 0

imageVars == <<LATEST_IMAGE_DATA, CURRENT_SCREENSHOT_FILE_ON_DISK>>

\* sc.py:90-100 do_GET for /latest_screenshot.png: the request is stamped,
\* last_client_request_time = time.time().
do_GET_stamp ==
    /\ hPc = "idle"
    /\ requests < MaxRequests
    /\ requests' = requests + 1
    /\ age' = 0
    /\ hPc' = "is_set"
    /\ UNCHANGED <<capPc, mPc, mRem, capture_active, imageVars>>
    /\ UNCHANGED notScVars

\* sc.py:93-97, 120-121 do_GET for another path: the page, or 404.
do_GET_other ==
    /\ hPc = "idle"
    /\ requests < MaxRequests
    /\ requests' = requests + 1
    /\ UNCHANGED <<hPc, capPc, mPc, mRem, age, capture_active, imageVars>>
    /\ UNCHANGED notScVars

\* sc.py:101 if not _capture_active_event.is_set()
do_GET_is_set ==
    /\ hPc = "is_set"
    /\ hPc' = IF capture_active THEN "reply" ELSE "set"
    /\ UNCHANGED <<requests, capPc, mPc, mRem, age, capture_active, imageVars>>
    /\ UNCHANGED notScVars

\* sc.py:102-103 _capture_active_event.set()
do_GET_set ==
    /\ hPc = "set"
    /\ capture_active' = TRUE
    /\ hPc' = "reply"
    /\ UNCHANGED <<requests, capPc, mPc, mRem, age, imageVars>>
    /\ UNCHANGED notScVars

\* sc.py:105-119 the image is read under the lock and sent, or 503.
do_GET_reply ==
    /\ hPc = "reply"
    /\ hPc' = "idle"
    /\ UNCHANGED <<requests, capPc, mPc, mRem, age, capture_active, imageVars>>
    /\ UNCHANGED notScVars

\* a variant of the test of the event that captures whether or not it is set
capture_loop_is_set_always ==
    /\ capPc = "wait"
    /\ capPc' = "run"
    /\ UNCHANGED <<hPc, requests, mPc, mRem, age, capture_active, imageVars>>
    /\ UNCHANGED notScVars

\* sc.py:128-134, 202-204 _capture_active_event.wait(timeout=1), then
\* is_set(): set, the iteration captures; clear, it sleeps a second and
\* waits again.
capture_loop_is_set ==
    /\ capPc = "wait"
    /\ capture_active
    /\ capPc' = "run"
    /\ UNCHANGED <<hPc, requests, mPc, mRem, age, capture_active, imageVars>>
    /\ UNCHANGED notScVars

\* sc.py:148-178 scrot ran with exit status 0, its file exists and is read.
capture_loop_run ==
    /\ capPc = "run"
    /\ capPc' = "store"
    /\ UNCHANGED <<hPc, requests, mPc, mRem, age, capture_active, imageVars>>
    /\ UNCHANGED notScVars

\* a variant of the error branches that does not clear the event
capture_loop_error_keep ==
    /\ capPc = "run"
    /\ capPc' = "paused"
    /\ UNCHANGED <<hPc, requests, mPc, mRem, age, capture_active, imageVars>>
    /\ UNCHANGED notScVars

\* sc.py:156-175, 194-199 a capture error: scrot's exit status is not 0,
\* its file is missing, or subprocess.run or the read raises.  The event is
\* cleared and the loop sleeps 5 seconds.
capture_loop_error ==
    /\ capPc = "run"
    /\ capture_active' = FALSE
    /\ capPc' = "paused"
    /\ UNCHANGED <<hPc, requests, mPc, mRem, age, imageVars>>
    /\ UNCHANGED notScVars

\* sc.py:180-192 under IMAGE_DATA_LOCK the new image and its file name are
\* stored; the old file is removed.
capture_loop_store ==
    /\ capPc = "store"
    /\ LATEST_IMAGE_DATA' = IF LATEST_IMAGE_DATA = 1 THEN 2 ELSE 1
    /\ CURRENT_SCREENSHOT_FILE_ON_DISK' = LATEST_IMAGE_DATA'
    /\ capPc' = "interval"
    /\ UNCHANGED <<hPc, requests, mPc, mRem, age, capture_active>>
    /\ UNCHANGED notScVars

\* sc.py:168,174,198 time.sleep(5) and continue; sc.py:201
\* time.sleep(SCREENSHOT_INTERVAL_SECONDS): back to the top of the loop.
capture_loop_sleep ==
    /\ capPc \in {"paused", "interval"}
    /\ capPc' = "wait"
    /\ UNCHANGED <<hPc, requests, mPc, mRem, age, capture_active, imageVars>>
    /\ UNCHANGED notScVars

\* sc.py:212-213, 219 the monitor's two tests; when one fails it sleeps
\* CLIENT_INACTIVITY_TIMEOUT_SECONDS / 2.
monitor_check ==
    /\ mPc = "check"
    /\ IF capture_active /\ age > Timeout
       THEN mPc' = "clear" /\ UNCHANGED mRem
       ELSE mPc' = "sleep" /\ mRem' = MonitorSleep
    /\ UNCHANGED <<hPc, requests, capPc, age, capture_active, imageVars>>
    /\ UNCHANGED notScVars

\* sc.py:214-219 _capture_active_event.clear(), then the sleep.
monitor_clear ==
    /\ mPc = "clear"
    /\ capture_active' = FALSE
    /\ mPc' = "sleep"
    /\ mRem' = MonitorSleep
    /\ UNCHANGED <<hPc, requests, capPc, age, imageVars>>
    /\ UNCHANGED notScVars

\* sc.py:219, 211 the sleep is over.
monitor_wake ==
    /\ mPc = "sleep"
    /\ mRem = 0
    /\ mPc' = "check"
    /\ UNCHANGED <<hPc, requests, capPc, mRem, age, capture_active, imageVars>>
    /\ UNCHANGED notScVars

\* Time passes while the monitor sleeps, a grain or what is left of the
\* sleep.
ScTick ==
    /\ mPc = "sleep"
    /\ mRem > 0
    /\ \E d \in {Min(TickStep, mRem), mRem} :
          /\ mRem' = mRem - d
          /\ age' = Min(age + d, AgeCap)
    /\ UNCHANGED <<hPc, requests, capPc, mPc, capture_active, imageVars>>
    /\ UNCHANGED notScVars

HandlerThread ==
    \/ do_GET_stamp
    \/ do_GET_other
    \/ do_GET_is_set
    \/ do_GET_set
    \/ do_GET_reply

CaptureThread ==
    \/ capture_loop_is_set
    \/ capture_loop_run
    \/ capture_loop_error
    \/ capture_loop_store
    \/ capture_loop_sleep

MonitorThread ==
    \/ monitor_check
    \/ monitor_clear
    \/ monitor_wake

ScNext ==
    \/ do_GET_stamp
    \/ do_GET_other
    \/ do_GET_is_set
    \/ do_GET_set
    \/ do_GET_reply
    \/ capture_loop_is_set
    \/ capture_loop_run
    \/ capture_loop_error
    \/ capture_loop_store
    \/ capture_loop_sleep
    \/ monitor_check
    \/ monitor_clear
    \/ monitor_wake
    \/ ScTick

(***************************************************************************)
(* thing.py: the iPhone backup monitor.  main polls lsusb; the first time   *)
(* the device is seen in a session it mounts it with ifuse, runs            *)
(* upload_files_to_r2 and unmounts.                                         *)
(***************************************************************************)

\* the keys of the files on the device, the same in every session
Files == 1..MaxFiles

ThingInit ==
    /\ tPc = "check"
    /\ upload_session_active = FALSE
    /\ is_connected = FALSE
    /\ device = FALSE
    /\ mounted = FALSE
    /\ unmountDue = FALSE
    /\ attempts = 0
    /\ idx = 0
    /\ head = "none"
    /\ uploaded_count = 0
    /\ skipped_count = 0
    /\ bucket = {}
    /\ lastFull = FALSE

\* the locals of upload_files_to_r2 outside a call
NoUpload ==
    /\ idx' = 0
    /\ head' = "none"
    /\ uploaded_count' = 0
    /\ skipped_count' = 0

\* thing.py:58-64  what check_for_iphone can return: whether lsusb lists the
\* device, or False when lsusb fails
check_for_iphone == {device, FALSE}

\* thing.py:169-186  one poll and the branch taken on its result
thing_check ==
    /\ tPc = "check"
    /\ \E seen \in check_for_iphone :
        /\ is_connected' = seen
        /\ IF seen /\ ~upload_session_active
           THEN /\ upload_session_active' = TRUE
                /\ attempts' = Min(attempts + 1, 2)
                /\ tPc' = "mount"
           ELSE IF ~seen /\ upload_session_active
           THEN /\ upload_session_active' = FALSE
                /\ attempts' = 0
                /\ tPc' = "sleep"
           ELSE /\ tPc' = "sleep"
                /\ UNCHANGED <<upload_session_active, attempts>>
    /\ UNCHANGED <<device, mounted, unmountDue, uploadVars>>
    /\ UNCHANGED notThingVars

\* thing.py:61  subprocess.run raises an OSError that check_for_iphone does
\* not catch (only CalledProcessError and FileNotFoundError are caught)
thing_check_raise ==
    /\ tPc = "check"
    /\ tPc' = "handler"
    /\ UNCHANGED <<upload_session_active, is_connected, device, mounted,
                   unmountDue, attempts, uploadVars>>
    /\ UNCHANGED notThingVars

\* thing.py:81-86,176-177  mount_iphone returns True: ifuse mounted the device
mount_iphone ==
    /\ tPc = "mount"
    /\ device
    /\ mounted' = TRUE
    /\ unmountDue' = TRUE
    /\ tPc' = "scan"
    /\ UNCHANGED <<upload_session_active, is_connected, device, attempts,
                   uploadVars>>
    /\ UNCHANGED notThingVars

\* the mount failed and upload_files_to_r2 is called all the same
mount_iphone_failed_uploads ==
    /\ tPc = "mount"
    /\ tPc' = "scan"
    /\ UNCHANGED <<upload_session_active, is_connected, device, mounted,
                   unmountDue, attempts, uploadVars>>
    /\ UNCHANGED notThingVars

\* thing.py:76-79,87-93,181-182  mount_iphone returns False; main only sends
\* the notification
mount_iphone_failed ==
    /\ tPc = "mount"
    /\ tPc' = "notify"
    /\ UNCHANGED <<upload_session_active, is_connected, device, mounted,
                   unmountDue, attempts, uploadVars>>
    /\ UNCHANGED notThingVars

\* thing.py:72-75  mount_iphone raises: mkdir fails with an OSError other
\* than PermissionError
mount_iphone_raise ==
    /\ tPc = "mount"
    /\ tPc' = "handler"
    /\ UNCHANGED <<upload_session_active, is_connected, device, mounted,
                   unmountDue, attempts, uploadVars>>
    /\ UNCHANGED notThingVars

\* thing.py:182  send_discord_notification after the failed mount
thing_notify ==
    /\ tPc = "notify"
    /\ tPc' = "sleep"
    /\ UNCHANGED <<upload_session_active, is_connected, device, mounted,
                   unmountDue, attempts, uploadVars>>
    /\ UNCHANGED notThingVars

\* thing.py:106-121  upload_files_to_r2 lists and sorts the files and zeroes
\* its counters
upload_scan ==
    /\ tPc = "scan"
    /\ idx' = 1
    /\ head' = "none"
    /\ uploaded_count' = 0
    /\ skipped_count' = 0
    /\ tPc' = "head"
    /\ UNCHANGED <<upload_session_active, is_connected, device, mounted,
                   unmountDue, attempts, bucket, lastFull>>
    /\ UNCHANGED notThingVars

\* the place after the file idx: the next file or the summary
AfterFile == IF idx = MaxFiles THEN "summary" ELSE "head"

\* what head_object answers for the key idx: "200" only for a key in the
\* bucket, "404" only for a key not in it, or another ClientError
head_object == (IF idx \in bucket THEN {"200"} ELSE {"404"}) \cup {"error"}

\* a check that failed with another error is followed by the upload too
upload_head_any_error ==
    /\ tPc = "head"
    /\ \E answer \in head_object :
        /\ head' = answer
        /\ IF answer = "200"
           THEN /\ skipped_count' = skipped_count + 1
                /\ idx' = idx + 1
                /\ tPc' = AfterFile
           ELSE /\ tPc' = "upload"
                /\ UNCHANGED <<idx, skipped_count>>
    /\ UNCHANGED <<upload_session_active, is_connected, device, mounted,
                   unmountDue, attempts, uploaded_count, bucket, lastFull>>
    /\ UNCHANGED notThingVars

\* thing.py:123-133  the existence check of one file: an existing key is
\* counted as skipped, another error than 404 goes on to the next file
upload_head ==
    /\ tPc = "head"
    /\ \E answer \in head_object :
        /\ head' = answer
        /\ IF answer = "200"
           THEN /\ skipped_count' = skipped_count + 1
                /\ idx' = idx + 1
                /\ tPc' = AfterFile
           ELSE IF answer = "error"
           THEN /\ idx' = idx + 1
                /\ tPc' = AfterFile
                /\ UNCHANGED skipped_count
           ELSE /\ tPc' = "upload"
                /\ UNCHANGED <<idx, skipped_count>>
    /\ UNCHANGED <<upload_session_active, is_connected, device, mounted,
                   unmountDue, attempts, uploaded_count, bucket, lastFull>>
    /\ UNCHANGED notThingVars

\* thing.py:135-140  upload_file after a 404: counted when it succeeds, only
\* printed when it raises
upload_file ==
    /\ tPc = "upload"
    /\ \/ /\ bucket' = bucket \cup {idx}
          /\ uploaded_count' = uploaded_count + 1
       \/ UNCHANGED <<bucket, uploaded_count>>
    /\ idx' = idx + 1
    /\ tPc' = AfterFile
    /\ UNCHANGED <<upload_session_active, is_connected, device, mounted,
                   unmountDue, attempts, head, skipped_count, lastFull>>
    /\ UNCHANGED notThingVars

\* thing.py:142-144  the summary; upload_files_to_r2 returns
upload_summary ==
    /\ tPc = "summary"
    /\ lastFull' = (uploaded_count + skipped_count = MaxFiles)
    /\ NoUpload
    /\ tPc' = "finally"
    /\ UNCHANGED <<upload_session_active, is_connected, device, mounted,
                   unmountDue, attempts, bucket>>
    /\ UNCHANGED notThingVars

\* thing.py:108,127,146-153  the scan or head_object raises something that is
\* not a ClientError; the outer handlers report it and the function returns
upload_except ==
    /\ tPc \in {"scan", "head"}
    /\ lastFull' = FALSE
    /\ NoUpload
    /\ tPc' = "finally"
    /\ UNCHANGED <<upload_session_active, is_connected, device, mounted,
                   unmountDue, attempts, bucket>>
    /\ UNCHANGED notThingVars

\* thing.py:178-179  KeyboardInterrupt inside upload_files_to_r2, which no
\* handler of the function catches: the finally clause runs on the way out
upload_interrupt ==
    /\ tPc \in {"scan", "head", "upload"}
    /\ lastFull' = FALSE
    /\ NoUpload
    /\ tPc' = "finally_kbd"
    /\ UNCHANGED <<upload_session_active, is_connected, device, mounted,
                   unmountDue, attempts, bucket>>
    /\ UNCHANGED notThingVars

\* thing.py:95-102  what a call of unmount_iphone that returns leaves of the
\* mount: fusermount unmounted it, or failed with CalledProcessError
unmount_iphone == {FALSE, mounted}

\* thing.py:179-180,188  the finally clause after upload_files_to_r2
unmount_finally ==
    /\ tPc \in {"finally", "finally_kbd"}
    /\ unmountDue' = FALSE
    /\ mounted' \in unmount_iphone
    /\ tPc' = IF tPc = "finally" THEN "sleep" ELSE "kbd"
    /\ UNCHANGED <<upload_session_active, is_connected, device, attempts,
                   uploadVars>>
    /\ UNCHANGED notThingVars

\* thing.py:99,180  unmount_iphone called in the finally clause raises an
\* error that is not CalledProcessError
unmount_finally_raise ==
    /\ tPc = "finally"
    /\ unmountDue' = FALSE
    /\ tPc' = "handler"
    /\ UNCHANGED <<upload_session_active, is_connected, device, mounted,
                   attempts, uploadVars>>
    /\ UNCHANGED notThingVars

\* thing.py:188  time.sleep(10), then the next iteration
thing_sleep ==
    /\ tPc = "sleep"
    /\ tPc' = "check"
    /\ UNCHANGED <<upload_session_active, is_connected, device, mounted,
                   unmountDue, attempts, uploadVars>>
    /\ UNCHANGED notThingVars

\* thing.py:188,190  KeyboardInterrupt during the sleep
thing_sleep_interrupt ==
    /\ tPc = "sleep"
    /\ tPc' = "kbd"
    /\ UNCHANGED <<upload_session_active, is_connected, device, mounted,
                   unmountDue, attempts, uploadVars>>
    /\ UNCHANGED notThingVars

\* thing.py:190-193  except KeyboardInterrupt: unmount and break
thing_KeyboardInterrupt ==
    /\ tPc = "kbd"
    /\ mounted' \in unmount_iphone
    /\ tPc' = "stopped"
    /\ UNCHANGED <<upload_session_active, is_connected, device, unmountDue,
                   attempts, uploadVars>>
    /\ UNCHANGED notThingVars

\* the handler also resets the session flag, so the backup is tried again
thing_except_reset ==
    /\ tPc = "handler"
    /\ mounted' \in unmount_iphone
    /\ upload_session_active' = FALSE
    /\ tPc' = "pause"
    /\ UNCHANGED <<is_connected, device, unmountDue, attempts, uploadVars>>
    /\ UNCHANGED notThingVars

\* thing.py:194-196  except Exception: unmount_iphone returns
thing_except ==
    /\ tPc = "handler"
    /\ mounted' \in unmount_iphone
    /\ tPc' = "pause"
    /\ UNCHANGED <<upload_session_active, is_connected, device, unmountDue,
                   attempts, uploadVars>>
    /\ UNCHANGED notThingVars

\* thing.py:99,196  unmount_iphone called in the except Exception handler
\* raises an error that is not CalledProcessError; nothing encloses the
\* handler, so the exception leaves the while loop and main
thing_except_raise ==
    /\ tPc = "handler"
    /\ tPc' = "crashed"
    /\ UNCHANGED <<upload_session_active, is_connected, device, mounted,
                   unmountDue, attempts, uploadVars>>
    /\ UNCHANGED notThingVars

\* thing.py:197  time.sleep(30), then the next iteration
thing_pause ==
    /\ tPc = "pause"
    /\ tPc' = "check"
    /\ UNCHANGED <<upload_session_active, is_connected, device, mounted,
                   unmountDue, attempts, uploadVars>>
    /\ UNCHANGED notThingVars

\* the user plugs the device in or pulls it out; the monitor starts with the
\* device unplugged and the first plug may come before the first poll
device_toggle ==
    /\ tPc \notin {"stopped", "crashed"}
    /\ device' = ~device
    /\ UNCHANGED <<tPc, upload_session_active, is_connected, mounted,
                   unmountDue, attempts, uploadVars>>
    /\ UNCHANGED notThingVars

ThingNext ==
    \/ thing_check
    \/ thing_check_raise
    \/ mount_iphone
    \/ mount_iphone_failed
    \/ mount_iphone_raise
    \/ thing_notify
    \/ upload_scan
    \/ upload_head
    \/ upload_file
    \/ upload_summary
    \/ upload_except
    \/ upload_interrupt
    \/ unmount_finally
    \/ unmount_finally_raise
    \/ thing_sleep
    \/ thing_sleep_interrupt
    \/ thing_KeyboardInterrupt
    \/ thing_except
    \/ thing_except_raise
    \/ thing_pause
    \/ device_toggle

Init == SupInit /\ OrchInit /\ LogInit /\ ScInit /\ ThingInit

Next ==
    \/ install_requirements
    \/ install_requirements_except
    \/ main_start_worker
    \/ main_start_repeat
    \/ main_except
    \/ main_idle
    \/ \E w \in Workers : safe_run_script_Popen(w)
    \/ \E w \in Workers : safe_run_script_except(w)
    \/ \E w \in Workers : child_exit(w)
    \/ repeat_function_fire
    \/ repeat_function_action_end
    \/ repeat_function_except
    \/ repeat_function_wake
    \/ Tick

Spec == Init /\ [][Next]_vars

OrchSpec == Init /\ [][OrchNext]_vars

LogSpec == Init /\ [][LogNext]_vars

ScSpec == Init /\ [][ScNext]_vars

ThingSpec == Init /\ [][ThingNext]_vars

\* sc.py under the scheduling the interpreter gives: a request that has been
\* received is handled, the capture and monitor threads go on, time
\* passes.  Nothing makes a client send a request.
ScFairSpec ==
    /\ Init
    /\ [][ScNext]_vars
    /\ WF_vars(do_GET_is_set \/ do_GET_set \/ do_GET_reply)
    /\ WF_vars(CaptureThread)
    /\ WF_vars(MonitorThread)
    /\ WF_vars(ScTick)

\* The steps of each thread of test.py.
MainThread ==
    \/ install_requirements
    \/ install_requirements_except
    \/ main_start_worker
    \/ main_start_repeat
    \/ main_except
    \/ main_idle

WorkerThread(w) == safe_run_script_Popen(w) \/ safe_run_script_except(w)

RepeatThread ==
    \/ repeat_function_fire
    \/ repeat_function_action_end
    \/ repeat_function_except
    \/ repeat_function_wake

\* The supervisor under the scheduling the interpreter gives: every thread
\* that can take a step takes one in the end, and time passes.  Nothing
\* makes a child process end.
FairSpec ==
    /\ Init
    /\ [][Next]_vars
    /\ WF_vars(MainThread)
    /\ \A w \in Workers : WF_vars(WorkerThread(w))
    /\ WF_vars(RepeatThread)
    /\ WF_vars(Tick)

(***************************************************************************)
(* The states of the keep-alive loop, read off the thread's state          *)
(***************************************************************************)

\* test.py:13-17: the launch failed because the executable does not resolve
GivenUp(w) ==
    /\ outcome[w] = "not_found"
    /\ wPc[w] \in {"except", "returned", "died"}

\* test.py:13-17: the keep-alive thread of w has ended
LoopEnded(w) == wPc[w] \in {"returned", "died"}

(***************************************************************************)
(* Claims                                                                  *)
(***************************************************************************)

\* C1 (restart invariant): whenever the process of a successfully launched
\* worker has exited, with any exit code, while the supervisor idles, the
\* worker is launched again (its process runs again).
C1_RestartInvariant ==
    \A w \in Workers :
        (mainPc = "idle" /\ child[w] = "exited") ~> (child[w] = "running")

\* C2 (terminal give-up): once a worker is GIVEN_UP (its launch failed
\* because the executable does not resolve) it stays GIVEN_UP in every
\* later state, and its number of launch attempts is 1 and stays 1.
C2_TerminalGiveUp ==
    [][\A w \in Workers :
          GivenUp(w) => /\ launches[w] = 1
                        /\ GivenUp(w)'
                        /\ launches'[w] = 1]_vars

\* C2 witness: a worker is GIVEN_UP, its thread has ended after one launch
\* attempt, and the scheduler has since completed a full period.
C2_Witness ==
    \E w \in Workers :
        /\ GivenUp(w)
        /\ wPc[w] = "returned"
        /\ launches[w] = 1
        /\ scripts[w] \in logged
        /\ lastGap >= Interval

\* C3 (the root never exits): main() never returns and the process never
\* terminates, whatever is raised during startup.
C3_RootNeverExits == mainPc # "terminated"

\* C4 (no drift): every fire happens a whole number of intervals after the
\* first one, and two consecutive fires are exactly Interval apart (K fires
\* span K*T, not K*(T+d)).
C4_NoDrift == late = 0 /\ lastGap \in {-1, Interval}

\* C5 (next_fire_time on the grid): the time the scheduler next fires at is
\* always start + n*Interval: it is never set from the current time.
C5_NextFireOnGrid == nextFireLate \in {-1, 0}

\* C6 (fault isolation): a task body that raises does not stop the
\* scheduler, and the fire after a failed run comes at the same cadence
\* (Interval after the previous fire).
C6_FaultIsolation ==
    /\ sPc # "died"
    /\ (actionFails /\ lastGap # -1) => lastGap = Interval

\* C9 (launch, wait, restart are sequential): while the child process of a
\* launch is running, the keep-alive loop that launched it has not ended:
\* it is there to wait for (reap) the child before any relaunch.
C9_LaunchWaitRestart ==
    \A w \in Workers : child[w] = "running" => ~LoopEnded(w)

\* C10 (concurrent independence): with one worker GIVEN_UP, another worker
\* whose process has exited is launched again all the same.
C10_ConcurrentIndependence ==
    \A w, v \in Workers :
        (w # v /\ GivenUp(v) /\ mainPc = "idle" /\ child[w] = "exited")
            ~> (child[w] = "running")

\* C7 (truncate only after a successful flush): the local log file loses
\* lines only in the clear step of a run whose
\* process_and_save_local_file_to_db returned True, and no step of a run for
\* which it returned False changes the file.
C7_TruncateOnlyAfterFlush ==
    [][/\ Len(file') < Len(file) =>
             \E r \in Runs : /\ oPc[r] = "clear"
                              /\ result[r] = "true"
                              /\ cleared'[r]
       /\ \A r \in Runs :
             ((result[r] = "false" \/ result'[r] = "false") /\ oPc'[r] # oPc[r])
                 => file' = file]_vars

\* C7 witness: one run has returned False and left a non-empty file as it
\* was, while another run, which flushed the file and returned True, is
\* about to truncate it.
C7_Witness ==
    \E r, q \in Runs :
        /\ oPc[r] = "end" /\ result[r] = "false" /\ ~cleared[r]
        /\ Len(file) > 0
        /\ oPc[q] = "clear" /\ result[q] = "true"
        /\ Ids(file) \subseteq db

\* C8 (no duplicate supervision): never are two collector processes
\* started by start_secondary_script_if_needed running at the same time.
C8_NoDuplicateSupervision == Cardinality(alive) <= 1

\* C11 (no exception escapes its loop): neither a keep-alive thread nor the
\* scheduler thread ever ends because of an uncaught exception, also when
\* the exception is raised while the error is written to the log.
C11_NoEscape == sPc # "died" /\ \A w \in Workers : wPc[w] # "died"

\* C12 (a launch failure other than not-found is transient): after Popen
\* raised an OSError that is not FileNotFoundError, while the supervisor
\* idles, the worker is launched again.
C12_LaunchFailedRetried ==
    \A w \in Workers :
        (outcome[w] = "os_error" /\ mainPc = "idle") ~> (launches[w] >= 2)

\* C13 (startup): when main enters its idle wait, one keep-alive thread has
\* been started for each script and the scheduler thread has been started;
\* a thread is started only where none was started before, and the
\* scheduler last; once in the idle wait main stays in it.
C13_Startup ==
    [][/\ mainPc' = "idle" =>
             /\ spawned' = Len(scripts)
             /\ \A w \in Workers : wPc'[w] # "unstarted"
             /\ sPc' # "unstarted"
       /\ \A w \in Workers :
             (wPc'[w] = "popen" /\ wPc[w] # "popen") =>
                 (wPc[w] = "unstarted" /\ sPc = "unstarted")
       /\ (sPc' # sPc /\ sPc = "unstarted") => mainPc' = "idle"
       /\ mainPc = "idle" => mainPc' = "idle"]_vars

\* C13 witness: main has slept in its idle wait, both keep-alive threads
\* have run (one child is running), and the scheduler has fired.
C13_Witness ==
    /\ mainPc = "idle" /\ beat = 1
    /\ \A w \in Workers : wPc[w] # "unstarted"
    /\ \E w \in Workers : child[w] = "running"
    /\ fired

\* C14 (appends to the log files are serialized): no two writers are inside
\* an append to the same log file at the same time.
C14_SerializedAppends ==
    \A a, b \in LogWriters :
        (a # b /\ writing[a] # "none") => writing[a] # writing[b]

\* C15 (the monitor deactivates only after the timeout): whenever the
\* monitor is about to clear the capture-active event, the most recent
\* request for /latest_screenshot.png is older than the timeout.
C15_ClearOnlyWhenStale == mPc = "clear" => age > Timeout

C17_CaptureError ==
    [][/\ (capPc = "run" /\ capPc' = "paused") =>
             (~capture_active' /\ UNCHANGED imageVars)
       /\ (~capture_active /\ capture_active') => hPc = "set"
       /\ (~capture_active /\ capPc # "run") => capPc' # "run"
       /\ capPc' \in {"wait", "run", "store", "interval", "paused"}]_vars

\* C17 witness: after an image was stored a later capture failed: the event
\* is clear, the loop is in its pause, the stored image is still there, and
\* a new request is about to set the event again.
C17_Witness ==
    /\ capPc = "paused" /\ ~capture_active
    /\ LATEST_IMAGE_DATA # 0
    /\ CURRENT_SCREENSHOT_FILE_ON_DISK = LATEST_IMAGE_DATA
    /\ hPc = "set"

\* C18 (PID-file consistency): when start_secondary_script_if_needed
\* returns, the PID file holds the pid of the running process the call
\* found, or the pid of the process the call launched, or, the launch
\* having failed, there is no PID file.
C18_PidFileConsistent ==
    [][\A r \in Runs :
          (oPc'[r] \in {"process", "export"} /\ oPc[r] # oPc'[r]) =>
              /\ oPc[r] = "check" => pidFile' = current_pid[r]
              /\ oPc[r] \in {"set_pid", "write_pid"} => pidFile' = processPid[r]
              /\ oPc[r] = "clear_pid" => pidFile' = 0]_vars

\* C19 (all-or-nothing on failure): the step in which
\* process_and_save_local_file_to_db returns False commits nothing and
\* leaves no row pending, the local file stays as it is, and the run goes
\* to its end without clearing the file.
C19_AllOrNothing ==
    [][\A r \in Runs :
          (result'[r] = "false" /\ result[r] # "false") =>
              /\ db' = db
              /\ txn'[r] = {}
              /\ file' = file
              /\ oPc'[r] = "end"
              /\ ~cleared'[r]]_vars

\* C19 witness: a run has inserted rows, none of them committed, and is in
\* the except clause of process_and_save_local_file_to_db.
C19_Witness ==
    \E r \in Runs :
        /\ oPc[r] = "rollback"
        /\ txn[r] # {}
        /\ txn[r] \cap db = {}

\* C20 (the file is cleared only if every line was inserted): the step of
\* a run that truncates the local log file discards no line that the run
\* read and skipped, unless the line has a committed row.
C20_ClearOnlyInserted ==
    [][\A r \in Runs :
          (oPc[r] = "clear" /\ cleared'[r]) =>
              (skipped[r] \cap Ids(file)) \subseteq db]_vars

\* C21 (no record is lost across a flush): the step of a run that
\* truncates the local log file discards no line but those with a committed
\* row and those the run read and skipped; a line appended after the run
\* read the file is not discarded.
C21_NoLossAcrossFlush ==
    [][\A r \in Runs :
          (oPc[r] = "clear" /\ cleared'[r]) =>
              (Ids(file) \ skipped[r]) \subseteq db]_vars

\* C22 (export mode is read-only): a step of a run in export mode changes
\* neither the database nor the local log file, inserts nothing, goes on
\* to the email branch and from there to the end of the process, and
\* send_email_with_attachment is called only if the export returned a path.
C22_ExportReadOnly ==
    [][\A r \in Runs :
          (oPc[r] \in {"export", "email"} /\ oPc'[r] # oPc[r]) =>
              /\ db' = db
              /\ file' = file /\ fileExists' = fileExists
              /\ txn'[r] = {} /\ result'[r] = "none" /\ ~cleared'[r]
              /\ oPc'[r] = IF oPc[r] = "export" THEN "email" ELSE "end"
              /\ emailTried'[r] => (oPc[r] = "email" /\ exported[r])]_vars

\* C22 witness: a run in export mode is at its end, having exported and
\* called send_email_with_attachment, while the local log file still holds
\* a line that has no row in the database.
C22_Witness ==
    \E r \in Runs :
        /\ oPc[r] = "end" /\ exported[r] /\ emailTried[r]
        /\ result[r] = "none" /\ ~cleared[r]
        /\ Len(file) > 0 /\ Ids(file) \cap db = {}

\* the places of main of thing.py between a successful mount and the call of
\* unmount_iphone in the finally clause
InTry == {"scan", "head", "upload", "summary", "finally", "finally_kbd"}

\* C23: one backup attempt per connection session: a mount attempt starts
\* only when the device is observed connected and no session is active, so
\* no second attempt is made before the next observed disconnect, also after
\* a failed mount or an attempt that raised; upload_session_active goes back
\* to False only in the poll that observes the device disconnected.
C23_OneAttemptPerSession ==
    [][/\ (tPc' = "mount" /\ tPc # "mount") =>
              (~upload_session_active /\ is_connected' /\ attempts' = 1)
       /\ (upload_session_active /\ ~upload_session_active') =>
              (tPc = "check" /\ ~is_connected' /\ tPc' = "sleep")
       /\ attempts' <= 1]_vars

\* the attempt of the session raised, the handler has run, the device is
\* still plugged in and the session still counts as served
C23_Witness ==
    /\ tPc = "pause"
    /\ upload_session_active /\ is_connected /\ device
    /\ attempts = 1

\* C24: mount and unmount are paired: upload_files_to_r2 is entered only
\* from a mount that succeeded, and wherever main is outside the try/finally
\* (so before its next iteration) unmount_iphone has been called since the
\* last successful mount, whether the upload returned or was interrupted.
C24_MountUnmountPaired ==
    [][/\ (tPc' = "scan" /\ tPc # "scan") =>
              (tPc = "mount" /\ device /\ mounted' /\ unmountDue')
       /\ unmountDue' => tPc' \in InTry
       /\ (tPc = "mount" /\ ~unmountDue') => tPc' \notin InTry]_vars

\* an upload was interrupted, the finally clause has unmounted and main is in
\* the KeyboardInterrupt handler
C24_Witness ==
    /\ tPc = "kbd"
    /\ upload_session_active
    /\ ~unmountDue /\ ~mounted
    /\ bucket # {}

\* C25: a file is uploaded (and counted as uploaded) only in the step after
\* a 404 answer and every 404 answer leads to the upload step; a key that
\* exists is counted as skipped and not uploaded; a check that fails with
\* another error changes neither counter nor the bucket; the two counters
\* never sum to more than the number of files; and a run after a run that
\* uploaded or skipped every file uploads nothing.
C25_UploadIffMissing ==
    [][/\ (bucket' # bucket \/ uploaded_count' > uploaded_count) =>
              (tPc = "upload" /\ head = "404" /\ idx \notin bucket)
       /\ (tPc = "head" /\ (idx' = idx + 1 \/ tPc' = "upload")) =>
              /\ (tPc' = "upload") <=> (head' = "404")
              /\ (head' = "200") <=> (idx \in bucket /\ head' # "error")
              /\ skipped_count' =
                     skipped_count + (IF head' = "200" THEN 1 ELSE 0)
              /\ uploaded_count' = uploaded_count /\ bucket' = bucket
       /\ uploaded_count' + skipped_count' <= MaxFiles
       /\ (tPc = "summary" /\ lastFull) => uploaded_count = 0]_vars

\* the second run after a run that uploaded every file: everything skipped
C25_Witness ==
    /\ tPc = "summary"
    /\ lastFull
    /\ bucket = Files
    /\ skipped_count = MaxFiles /\ uploaded_count = 0

\* C26: the monitor loop ends only on KeyboardInterrupt: main never leaves
\* the loop through an exception.
C26_LoopEndsOnlyOnInterrupt ==
    tPc # "crashed"

=============================================================================
